---- MODULE Spec2Model ----
(***************************************************************************)
(* Model of blackjack.py: Hand scoring (Hand.add_card,                     *)
(* Hand.calculate_hand_score) and the game sequencing done by              *)
(* BlackjackController (__init__, check_shuffle, draw_first_cards,         *)
(* players_turn, dealers_turn) against the Deck and the BlackjackView.     *)
(*                                                                         *)
(* A Card is modelled by its `value` string: the score and the control     *)
(* flow read no other field.  The controller is one sequential run of      *)
(* __init__; pc is its position, and every action is the code between two  *)
(* consecutive interactions with the deck (a draw) or the console (input). *)
(***************************************************************************)
EXTENDS Integers, Sequences, FiniteSets, TLC

\* ------------------------------------------------------------------ bounds
\* How many of the 13 card values (in the order of CardValues) the deck holds.
NumRanks == 5
\* How many cards the deck can still give: a draw from an exhausted deck fails.
DeckSize == 6
\* How many invalid inputs the console gives during one ask_next_move call.
MaxInvalid == 1
\* Longest hand built in HandSpec.
MaxLen == 4

\* ------------------------------------------------------------------ cards
\* The 13 values a Card can carry (the `value` field of the API's card).
CardValues ==
    << "ACE", "10", "2", "9", "5", "6", "KING", "3", "4", "7", "8",
       "JACK", "QUEEN" >>

AllRanks == { CardValues[k] : k \in 1..Len(CardValues) }

\* The values the deck of the game draws from.
Ranks == { CardValues[k] : k \in 1..(IF NumRanks < Len(CardValues) THEN NumRanks ELSE Len(CardValues)) }

\* score_dict of calculate_hand_score: the non-Ace values.
score_dict ==
    [ v \in { "2", "3", "4", "5", "6", "7", "8", "9", "10", "JACK", "QUEEN", "KING" } |->
        CASE v = "2" -> 2 [] v = "3" -> 3 [] v = "4" -> 4 [] v = "5" -> 5
          [] v = "6" -> 6 [] v = "7" -> 7 [] v = "8" -> 8 [] v = "9" -> 9
          [] v = "10" -> 10 [] v = "JACK" -> 10 [] v = "QUEEN" -> 10
          [] v = "KING" -> 10 ]

\* ------------------------------------------------------------------ Hand
\* Hand.__init__
NewHand == [ cards |-> << >>, score |-> 0 ]

\* Body of the `for card in self.cards` loop for one card, on (new_score, count).
score_card_wrong_face(acc, v) ==
    [ new_score |-> IF v \in DOMAIN score_dict
                      THEN acc.new_score + (IF v \in {"JACK", "QUEEN", "KING"} THEN 11 ELSE score_dict[v])
                      ELSE acc.new_score,
      count |-> IF v = "ACE" THEN acc.count + 1 ELSE acc.count ]

score_card(acc, v) ==
    [ new_score |-> IF v \in DOMAIN score_dict THEN acc.new_score + score_dict[v]
                                                ELSE acc.new_score,
      count |-> IF v = "ACE" THEN acc.count + 1 ELSE acc.count ]

\* The `for card in self.cards` loop, from card k on.
RECURSIVE for_cards(_, _, _)
for_cards(cards, k, acc) ==
    IF k > Len(cards) THEN acc
    ELSE for_cards(cards, k + 1, score_card(acc, cards[k]))

\* One iteration of `while count`: the value this Ace adds to new_score.
ace_step_always_11(new_score) == 11

ace_step_ge(new_score) == IF new_score + 11 >= 21 THEN 1 ELSE 11

ace_step(new_score) == IF new_score + 11 > 21 THEN 1 ELSE 11

\* The `while count` loop.
while_count_best(new_score, count) ==
    IF count = 0 THEN new_score
    ELSE IF new_score + 11 + (count - 1) <= 21 THEN new_score + 11 + (count - 1)
    ELSE new_score + count

RECURSIVE while_count(_, _)
while_count(new_score, count) ==
    IF count = 0 THEN new_score
    ELSE while_count(new_score + ace_step(new_score), count - 1)

\* Hand.calculate_hand_score: the value stored in self.score.
calculate_hand_score(cards) ==
    LET acc == for_cards(cards, 1, [ new_score |-> 0, count |-> 0 ])
    IN  IF acc.count # 0 THEN while_count(acc.new_score, acc.count)
                         ELSE acc.new_score

\* Hand.add_card
add_card_stale(h, card) ==
    [ cards |-> Append(h.cards, card), score |-> h.score ]

add_card(h, card) ==
    LET cs == Append(h.cards, card)
    IN  [ cards |-> cs, score |-> calculate_hand_score(cs) ]

\* ------------------------------------------------------------------ view
\* What the player may type at the prompt.
Inputs == { "H", "h", "S", "s", "X", "" }

\* str.upper on the inputs.
upper_identity(s) == s

upper(s) == CASE s = "h" -> "H" [] s = "s" -> "S" [] OTHER -> s

\* BlackjackView.ask_next_move: the test that ends the input loop.
is_valid(action) == upper(action) \in { "H", "S" }

\* Card.__repr__: the card's code, modelled by its value.
card_repr(c) == c

\* What is on the screen before anything was displayed.
NoDisplay ==
    [ dealer_score |-> "", dealer_cards |-> << >>, player_score |-> "", player_cards |-> << >> ]

\* BlackjackView.display_state: the four fields printed, as text.
display_state_unmasked(state, final) ==
    [ dealer_score |-> ToString(state.dealer.score),
      dealer_cards |-> [ k \in DOMAIN state.dealer.cards |-> card_repr(state.dealer.cards[k]) ],
      player_score |-> ToString(state.player.score),
      player_cards |-> [ k \in DOMAIN state.player.cards |-> card_repr(state.player.cards[k]) ] ]

display_state(state, final) ==
    LET dealer_cards == state.dealer.cards
        n == Len(dealer_cards)
        dealer_cards_hidden_last ==
            [ k \in 1..(IF n = 0 THEN 0 ELSE n - 1) |-> card_repr(dealer_cards[k]) ] \o << "??" >>
    IN  [ dealer_score |-> IF final THEN ToString(state.dealer.score) ELSE "??",
          dealer_cards |-> IF final THEN [ k \in DOMAIN dealer_cards |-> card_repr(dealer_cards[k]) ]
                                    ELSE dealer_cards_hidden_last,
          player_score |-> ToString(state.player.score),
          player_cards |-> [ k \in DOMAIN state.player.cards |-> card_repr(state.player.cards[k]) ] ]

\* BlackjackView.player_won / player_lost: the line printed after the final
\* display, recorded with the call site in the controller that reported it.
player_won(rep, site) == Append(rep, [ outcome |-> "You won", site |-> site ])

player_lost(rep, site) == Append(rep, [ outcome |-> "You lost", site |-> site ])

\* ------------------------------------------------------------------ tests of the controller
\* draw_first_cards: `if i % 2 == 0` (the card goes to the player).
deals_to_player_odd(k) == k % 2 = 1

deals_to_player(k) == k % 2 = 0

\* __init__: `if score == 21` after draw_first_cards.
won_on_deal_unless_dealer(score, dealer_score) == score = 21 /\ dealer_score # 21

won_on_deal(score, dealer_score) == score = 21

\* __init__ after players_turn returned None: `if self.dealer.score == 21`.
dealer_has_21_unchecked(dealer_score) == FALSE

dealer_has_21(dealer_score) == dealer_score = 21

\* players_turn after a Hit: the checks of lines 184-194 in order.
\* "continue" is the next iteration of `while True`.
after_hit_never_ends(score) == "continue"

after_hit_ignores_21(score) ==
    IF score > 21 THEN "hit_over_21" ELSE "continue"

after_hit_22_first(score) ==
    IF score = 21 THEN "hit_21"
    ELSE IF score > 22 THEN "hit_over_22"
    ELSE IF score > 21 THEN "hit_over_21"
    ELSE "continue"

after_hit_21_first(score) ==
    IF score >= 21 /\ score <= 22 THEN "hit_21"
    ELSE IF score > 21 THEN "hit_over_21"
    ELSE "continue"

after_hit(score) ==
    IF score > 21 THEN "hit_over_21"
    ELSE IF score = 21 THEN "hit_21"
    ELSE IF score > 22 THEN "hit_over_22"
    ELSE "continue"

\* dealers_turn: the loop test `self.dealer.score <= self.player.score`.
dealer_draws_strict(dealer_score, player_score) == dealer_score < player_score

dealer_draws(dealer_score, player_score) == dealer_score <= player_score

\* dealers_turn after the loop: lines 167-172 ("none": the method falls off its end).
after_loop_over_21(dealer_score) ==
    IF dealer_score < 21 THEN "dealer_below"
    ELSE IF dealer_score > 21 THEN "dealer_above"
    ELSE "none"

after_loop_swapped(dealer_score) ==
    IF dealer_score < 21 THEN "dealer_above"
    ELSE IF dealer_score > 22 THEN "dealer_below"
    ELSE "none"

after_loop(dealer_score) ==
    IF dealer_score < 21 THEN "dealer_below"
    ELSE IF dealer_score > 22 THEN "dealer_above"
    ELSE "none"

\* The view call made at each call site of the controller.
report(rep, site) ==
    CASE site \in { "init", "hit_21", "dealer_above" } -> player_won(rep, site)
      [] site \in { "stand", "dealer_loop", "dealer_below", "hit_over_21", "hit_over_22" } ->
            player_lost(rep, site)
      [] OTHER -> rep

\* The sites at which the view is called with an outcome.
ReportSites ==
    { "init", "hit_21", "dealer_above", "stand", "dealer_loop", "dealer_below",
      "hit_over_21", "hit_over_22" }

\* ------------------------------------------------------------------ state
VARIABLES
    pc,          \* position of BlackjackController.__init__
    is_shuffled, \* Deck.is_shuffled
    player,      \* self.player : Hand
    dealer,      \* self.dealer : Hand
    i,           \* loop variable of draw_first_cards
    lost,        \* return value of players_turn ("unset" before it returns)
    drawn,       \* the values Deck.draw has returned, in order
    asked,       \* number of ask_next_move calls made
    invalid,     \* invalid inputs rejected in the current ask_next_move call
    reports,     \* outcome lines printed by the view, in order
    error,       \* the call whose exception ended the run ("none" if none)
    action,      \* ask_next_move: the input just read ("none" outside the test of it)
    cmd,         \* players_turn: the value ask_next_move returned ("" before)
    screen,      \* the last state display printed by the view
    hand         \* a free-standing Hand (HandSpec)

vars == << pc, is_shuffled, player, dealer, i, lost, drawn, asked, invalid,
           reports, error, action, cmd, screen, hand >>

game_vars == << pc, is_shuffled, player, dealer, i, lost, drawn, asked, invalid,
                reports, error, action, cmd, screen >>

Init ==
    /\ pc = "check_shuffle"
    /\ is_shuffled \in BOOLEAN
    /\ player = NewHand
    /\ dealer = NewHand
    /\ i = 0
    /\ lost = "unset"
    /\ drawn = << >>
    /\ asked = 0
    /\ invalid = 0
    /\ reports = << >>
    /\ error = "none"
    /\ action = "none"
    /\ cmd = ""
    /\ screen = NoDisplay
    /\ hand = NewHand

\* The display the view leaves on the screen when the controller reaches `site`
\* with hands d and p: the final display if an outcome is reported there.
shown(site, d, p) ==
    IF site \in ReportSites THEN display_state([ dealer |-> d, player |-> p ], TRUE)
                            ELSE screen

\* ------------------------------------------------------------------ Deck
\* Deck.draw returning a card of value r.
draw(r) ==
    /\ r \in Ranks
    /\ Len(drawn) < DeckSize
    /\ drawn' = Append(drawn, r)

\* Deck.draw raising (request failed, or no card left: cards[0] of an empty list).
DrawFailsRetried ==
    /\ \/ pc \in { "draw_first_cards", "hit" }
       \/ pc = "dealers_turn" /\ dealer_draws(dealer.score, player.score)
    /\ error' = "draw"
    /\ UNCHANGED << pc, is_shuffled, player, dealer, i, lost, drawn, asked, invalid, reports, action, cmd, screen, hand >>

DrawFails ==
    /\ \/ pc \in { "draw_first_cards", "hit" }
       \/ pc = "dealers_turn" /\ dealer_draws(dealer.score, player.score)
    /\ pc' = "aborted"
    /\ error' = "draw"
    /\ UNCHANGED << is_shuffled, player, dealer, i, lost, drawn, asked, invalid, reports, action, cmd, screen, hand >>

\* ------------------------------------------------------------------ BlackjackController
\* __init__ up to draw_first_cards: check_shuffle, then the two empty hands.
CheckShuffle ==
    /\ pc = "check_shuffle"
    /\ is_shuffled' = TRUE
    /\ player' = NewHand
    /\ dealer' = NewHand
    /\ pc' = "draw_first_cards"
    /\ UNCHANGED << i, lost, drawn, asked, invalid, reports, error, action, cmd, screen, hand >>

\* Deck.shuffle raising inside check_shuffle.
ShuffleFails ==
    /\ pc = "check_shuffle"
    /\ ~is_shuffled
    /\ pc' = "aborted"
    /\ error' = "shuffle"
    /\ UNCHANGED << is_shuffled, player, dealer, i, lost, drawn, asked, invalid, reports, action, cmd, screen, hand >>

\* One iteration of the loop of draw_first_cards.
DrawFirstCard(r) ==
    /\ pc = "draw_first_cards"
    /\ i < 4
    /\ draw(r)
    /\ IF deals_to_player(i)
         THEN player' = add_card(player, r) /\ dealer' = dealer
         ELSE dealer' = add_card(dealer, r) /\ player' = player
    /\ i' = i + 1
    /\ pc' = IF i + 1 < 4 THEN "draw_first_cards" ELSE "dealt"
    /\ UNCHANGED << is_shuffled, lost, asked, invalid, reports, error, action, cmd, screen, hand >>

\* __init__ after draw_first_cards returned the player's score.
AfterDeal ==
    /\ pc = "dealt"
    /\ IF won_on_deal(player.score, dealer.score)
         THEN /\ reports' = report(reports, "init")
              /\ screen' = shown("init", dealer, player)
              /\ pc' = "done"
         ELSE /\ reports' = reports
              /\ screen' = screen
              /\ pc' = "players_turn"
    /\ UNCHANGED << is_shuffled, player, dealer, i, lost, drawn, asked, invalid, error, action, cmd, hand >>

\* players_turn: top of `while True`, the call of view.ask_next_move, which
\* displays the state (not final) and then prompts.
AskNextMove ==
    /\ pc = "players_turn"
    /\ asked' = asked + 1
    /\ invalid' = 0
    /\ screen' = display_state([ dealer |-> dealer, player |-> player ], FALSE)
    /\ pc' = "ask_next_move"
    /\ UNCHANGED << is_shuffled, player, dealer, i, lost, drawn, reports, error, action, cmd, hand >>

\* ask_next_move: input() returns what the player typed.
ReadInput(a) ==
    /\ pc = "ask_next_move"
    /\ a \in Inputs
    /\ is_valid(a) \/ invalid < MaxInvalid
    /\ action' = a
    /\ pc' = "got_input"
    /\ UNCHANGED << is_shuffled, player, dealer, i, lost, drawn, asked, invalid, reports, error, cmd, screen, hand >>

\* ask_next_move: the input is neither H nor S; "Invalid command!" and prompt again.
InvalidInput ==
    /\ pc = "got_input"
    /\ ~is_valid(action)
    /\ invalid' = invalid + 1
    /\ action' = "none"
    /\ pc' = "ask_next_move"
    /\ UNCHANGED << is_shuffled, player, dealer, i, lost, drawn, asked, reports, error, cmd, screen, hand >>

\* ask_next_move returns "H": players_turn goes on to draw.
InputHit ==
    /\ pc = "got_input"
    /\ is_valid(action)
    /\ upper(action) = "H"
    /\ cmd' = upper(action)
    /\ action' = "none"
    /\ pc' = "hit"
    /\ UNCHANGED << is_shuffled, player, dealer, i, lost, drawn, asked, invalid, reports, error, screen, hand >>

\* ask_next_move returns "S": players_turn returns None, and __init__ either
\* reports the dealer's 21 or enters dealers_turn.
InputStand ==
    /\ pc = "got_input"
    /\ is_valid(action)
    /\ upper(action) = "S"
    /\ cmd' = upper(action)
    /\ action' = "none"
    /\ lost' = "None"
    /\ IF dealer_has_21(dealer.score)
         THEN /\ reports' = report(reports, "stand")
              /\ screen' = shown("stand", dealer, player)
              /\ pc' = "done"
         ELSE /\ reports' = reports
              /\ screen' = screen
              /\ pc' = "dealers_turn"
    /\ UNCHANGED << is_shuffled, player, dealer, i, drawn, asked, invalid, error, hand >>

\* players_turn, cmd == 'H': the draw and the checks that follow it.
PlayerHitToDealer(r) ==
    /\ pc = "hit"
    /\ draw(r)
    /\ dealer' = add_card(dealer, r)
    /\ pc' = "players_turn"
    /\ UNCHANGED << is_shuffled, player, i, lost, asked, invalid, reports, error, action, cmd, screen, hand >>

PlayerHit(r) ==
    /\ pc = "hit"
    /\ draw(r)
    /\ player' = add_card(player, r)
    /\ LET site == after_hit(player'.score)
       IN  /\ reports' = report(reports, site)
           /\ lost' = CASE site = "hit_over_21" -> "True"
                         [] site \in { "hit_21", "hit_over_22" } -> "False"
                         [] OTHER -> lost
           /\ screen' = shown(site, dealer, player')
           /\ pc' = IF site = "continue" THEN "players_turn" ELSE "done"
    /\ UNCHANGED << is_shuffled, dealer, i, asked, invalid, error, action, cmd, hand >>

\* dealers_turn: one iteration of the loop.
DealerDraw(r) ==
    /\ pc = "dealers_turn"
    /\ dealer_draws(dealer.score, player.score)
    /\ draw(r)
    /\ dealer' = add_card(dealer, r)
    /\ IF dealer'.score = 21
         THEN /\ reports' = report(reports, "dealer_loop")
              /\ screen' = shown("dealer_loop", dealer', player)
              /\ pc' = "done"
         ELSE /\ reports' = reports
              /\ screen' = screen
              /\ pc' = "dealers_turn"
    /\ UNCHANGED << is_shuffled, player, i, lost, asked, invalid, error, action, cmd, hand >>

\* dealers_turn: the loop test fails; the two checks after the loop.
DealerStop ==
    /\ pc = "dealers_turn"
    /\ ~dealer_draws(dealer.score, player.score)
    /\ reports' = report(reports, after_loop(dealer.score))
    /\ screen' = shown(after_loop(dealer.score), dealer, player)
    /\ pc' = "done"
    /\ UNCHANGED << is_shuffled, player, dealer, i, lost, drawn, asked, invalid, error, action, cmd, hand >>

Next ==
    \/ CheckShuffle
    \/ ShuffleFails
    \/ \E r \in Ranks : DrawFirstCard(r)
    \/ AfterDeal
    \/ AskNextMove
    \/ \E a \in Inputs : ReadInput(a)
    \/ InvalidInput
    \/ InputHit
    \/ InputStand
    \/ \E r \in Ranks : PlayerHit(r)
    \/ \E r \in Ranks : DealerDraw(r)
    \/ DealerStop
    \/ DrawFails

Spec == Init /\ [][Next]_vars

\* The run is sequential code: whenever it can take a step it takes one (the
\* deck answers or fails, and the player types something).
FairSpec == Spec /\ WF_vars(Next)

\* ------------------------------------------------------------------ a Hand on its own
\* Hand() followed by add_card calls with any of the 13 values.
HandAddCard(v) ==
    /\ v \in AllRanks
    /\ Len(hand.cards) < MaxLen
    /\ hand' = add_card(hand, v)
    /\ UNCHANGED game_vars

HandNext == \E v \in AllRanks : HandAddCard(v)

HandSpec == Init /\ [][HandNext]_vars

\* ------------------------------------------------------------------ the scoring rule, as stated
\* Point value of a non-Ace rank: "2".."10" their number, the faces 10.
RankValue(v) ==
    IF v \in { "JACK", "QUEEN", "KING" } THEN 10
    ELSE CHOOSE n \in 2..10 : ToString(n) = v

\* Sum of the point values of the non-Ace cards.
RECURSIVE NonAceSum(_)
NonAceSum(cards) ==
    IF cards = << >> THEN 0
    ELSE (IF Head(cards) = "ACE" THEN 0 ELSE RankValue(Head(cards))) + NonAceSum(Tail(cards))

AceCount(cards) == Cardinality({ k \in DOMAIN cards : cards[k] = "ACE" })

RECURSIVE SumTo(_, _)
SumTo(f, n) == IF n = 0 THEN 0 ELSE f[n] + SumTo(f, n - 1)

\* f[k] is what the k-th Ace adds, each decided against the running total.
GreedyAces(base, f, n) ==
    \A k \in 1..n : f[k] = IF base + SumTo(f, k - 1) + 11 <= 21 THEN 11 ELSE 1

\* score is the base plus some greedy valuation of the Aces.
IsRuleScore(cards, score) ==
    LET n == AceCount(cards)
        base == NonAceSum(cards)
    IN  \E f \in [ 1..n -> { 1, 11 } ] :
            GreedyAces(base, f, n) /\ score = base + SumTo(f, n)

Outcomes == [ k \in DOMAIN reports |-> reports[k].outcome ]

AllHands == { player, dealer }

\* ------------------------------------------------------------------ claims
\* C1: every game whose draws all succeed and whose moves are H or S ends
\* having reported exactly one outcome (stated of the normal return of
\* __init__; the code violates it when the dealer stops on exactly 22).
C1_ExactlyOneOutcome == pc = "done" => Len(reports) = 1

\* The state the code reaches where C1 fails: the dealer's loop ended on 22.
C1_Dealer22 == pc = "done" /\ lost = "None" /\ dealer.score = 22 /\ reports = << >>

\* C2: in every state each hand's stored score is the score of its current
\* cards under the scoring rule, and a hand changes only by one card appended
\* at its end (with the score recomputed in the same step).
C2_ScoreNeverStale ==
    /\ [](\A h \in AllHands : IsRuleScore(h.cards, h.score))
    /\ [][ /\ player' # player => \E r \in AllRanks : player'.cards = Append(player.cards, r)
           /\ dealer' # dealer => \E r \in AllRanks : dealer'.cards = Append(dealer.cards, r) ]_vars

\* Both hands have grown past the deal and the player's Ace has been revalued.
C2_Witness ==
    /\ Len(player.cards) = 3
    /\ Len(dealer.cards) = 3
    /\ player.cards[1] = "ACE"
    /\ player.score < 21

\* C3: the score of any hand is the sum of its non-Ace values plus the Ace
\* contributions decided one Ace at a time against the running total (11 if
\* running total + 11 <= 21, else 1); two Aces alone score 12.
C3_GreedyAces ==
    /\ IsRuleScore(hand.cards, hand.score)
    /\ hand.cards = << "ACE", "ACE" >> => hand.score = 12

\* A hand of three cards with two Aces, one counted 11 and one counted 1.
C3_Witness ==
    /\ Len(hand.cards) = 3
    /\ AceCount(hand.cards) = 2
    /\ hand.score = NonAceSum(hand.cards) + 12

\* C4: a hand with exactly one Ace and other cards summing to base scores
\* base + 11 when base + 11 <= 21 and base + 1 otherwise.
C4_OneAce ==
    AceCount(hand.cards) = 1 =>
        LET base == NonAceSum(hand.cards)
        IN  hand.score = IF base + 11 <= 21 THEN base + 11 ELSE base + 1

\* One Ace counted as 1 because the other cards sum to more than 10.
C4_Witness ==
    /\ AceCount(hand.cards) = 1
    /\ NonAceSum(hand.cards) > 10
    /\ hand.score = NonAceSum(hand.cards) + 1

\* C5: a hand with no Ace scores the sum of its rank values, 2..10 worth
\* their number and JACK, QUEEN, KING worth 10.
C5_NoAce ==
    AceCount(hand.cards) = 0 =>
        hand.score = SumTo([ k \in DOMAIN hand.cards |-> RankValue(hand.cards[k]) ], Len(hand.cards))

\* A hand of a face card and two number cards.
C5_Witness ==
    /\ Len(hand.cards) = 3
    /\ AceCount(hand.cards) = 0
    /\ \E k \in DOMAIN hand.cards : hand.cards[k] \in { "JACK", "QUEEN", "KING" }
    /\ hand.score < 21

\* C6: the deal draws exactly 4 cards before any move is requested or any
\* outcome reported; the player's hand starts with the 1st and 3rd drawn cards
\* and the dealer's with the 2nd and 4th.
C6_Deal ==
    /\ pc = "draw_first_cards" => Len(drawn) = i /\ i < 4
    /\ (asked > 0 \/ reports # << >>) => Len(drawn) >= 4
    /\ pc = "dealt" => Len(drawn) = 4 /\ asked = 0 /\ reports = << >>
    /\ Len(drawn) >= 4 =>
          /\ Len(player.cards) >= 2 /\ Len(dealer.cards) >= 2
          /\ SubSeq(player.cards, 1, 2) = << drawn[1], drawn[3] >>
          /\ SubSeq(dealer.cards, 1, 2) = << drawn[2], drawn[4] >>
    /\ pc = "dealt" => player.cards = << drawn[1], drawn[3] >> /\ dealer.cards = << drawn[2], drawn[4] >>

\* The deal has just ended with four different cards.
C6_Witness ==
    /\ pc = "dealt"
    /\ Cardinality({ drawn[k] : k \in DOMAIN drawn }) = 4

\* C7: when the player's two dealt cards score 21, "player wins" is the
\* outcome, reported straight after the deal whatever the dealer holds: no
\* move is requested and no fifth card is drawn.
C7_TwentyOneOnDeal ==
    ( /\ Len(player.cards) >= 2 /\ Len(dealer.cards) >= 2
      /\ IsRuleScore(SubSeq(player.cards, 1, 2), 21) ) =>
        /\ asked = 0
        /\ Len(drawn) = 4
        /\ \/ pc = "dealt" /\ reports = << >>
           \/ pc = "done" /\ Outcomes = << "You won" >>

\* Player and dealer were both dealt 21 and the player has won.
C7_Witness ==
    /\ pc = "done"
    /\ player.score = 21
    /\ dealer.score = 21
    /\ Len(drawn) = 4
    /\ Outcomes = << "You won" >>

\* C8: a Hit adds exactly one card to the player's hand; then a score above
\* 21 resolves with "player loses", exactly 21 with "player wins", and anything
\* else returns to the player's turn, whose next step asks for a move.  After
\* either resolution the dealer's hand is still the two dealt cards.
C8_Hit ==
    /\ [][ (pc = "hit" /\ pc' # "aborted") =>
              /\ \E r \in AllRanks : player'.cards = Append(player.cards, r)
              /\ Len(drawn') = Len(drawn) + 1
              /\ dealer' = dealer
              /\ IF player'.score > 21
                   THEN pc' = "done" /\ Outcomes' = Append(Outcomes, "You lost")
                   ELSE IF player'.score = 21
                   THEN pc' = "done" /\ Outcomes' = Append(Outcomes, "You won")
                   ELSE pc' = "players_turn" /\ reports' = reports ]_vars
    /\ [][ pc = "players_turn" => pc' = "ask_next_move" /\ asked' = asked + 1 ]_vars
    /\ [](lost \in { "True", "False" } =>
              pc = "done" /\ Len(dealer.cards) = 2 /\ Len(reports) = 1)

\* The player hit to exactly 22 and lost.
C8_Witness ==
    /\ pc = "done"
    /\ lost = "True"
    /\ player.score = 22
    /\ Outcomes = << "You lost" >>

\* C9: in the dealer's turn the dealer draws exactly when the dealer's score
\* is less than or equal to the player's (a tie included), one card per
\* iteration; a drawn card that makes the dealer's score 21 reports "player
\* loses" and ends the game, after which nothing more is drawn.
C9_DealerLoop ==
    /\ [][ pc = "dealers_turn" =>
              IF dealer.score <= player.score
                THEN \/ pc' = "aborted" /\ drawn' = drawn /\ dealer' = dealer
                     \/ /\ \E r \in AllRanks : dealer'.cards = Append(dealer.cards, r)
                        /\ Len(drawn') = Len(drawn) + 1
                        /\ player' = player
                        /\ IF dealer'.score = 21
                             THEN pc' = "done" /\ Outcomes' = Append(Outcomes, "You lost")
                             ELSE pc' = "dealers_turn" /\ reports' = reports
                ELSE pc' = "done" /\ dealer' = dealer /\ drawn' = drawn ]_vars
    /\ [][ pc = "done" => drawn' = drawn /\ dealer' = dealer ]_vars

\* The dealer tied with the player, drew, made 21 and the player lost.
C9_Witness ==
    /\ pc = "done"
    /\ lost = "None"
    /\ Len(dealer.cards) = 3
    /\ IsRuleScore(SubSeq(dealer.cards, 1, 2), player.score)
    /\ dealer.score = 21
    /\ Outcomes = << "You lost" >>

\* C10: when the dealer's loop has exited (dealer's score above the
\* player's), a dealer's score below 21 gives "player loses" and one above 22
\* gives "player wins"; the dealer's score is never 21 at loop exit.
C10_AfterLoop ==
    /\ (pc = "dealers_turn" /\ dealer.score > player.score) => dealer.score # 21
    /\ (pc = "done" /\ lost = "None" /\ dealer.score > player.score) =>
          /\ dealer.score < 21 => Outcomes = << "You lost" >>
          /\ dealer.score > 22 => Outcomes = << "You won" >>

\* The dealer drew past 22 and the player won.
C10_Witness ==
    /\ pc = "done"
    /\ lost = "None"
    /\ dealer.score > 22
    /\ Outcomes = << "You won" >>

\* ------------------------------------------------------------------ claims C11..C13
\* Both sides hold their two dealt cards, the dealer's scoring 21 and the
\* player's not.
DealerDealt21 ==
    /\ Len(player.cards) >= 2 /\ Len(dealer.cards) >= 2
    /\ IsRuleScore(SubSeq(dealer.cards, 1, 2), 21)
    /\ ~IsRuleScore(SubSeq(player.cards, 1, 2), 21)

\* C11 as stated: with the dealer dealt 21 and the player not, no card is
\* drawn after the four dealt cards and the outcome is "player loses",
\* whatever the player does.
C11_AsStated ==
    DealerDealt21 =>
        /\ Len(drawn) = 4
        /\ pc = "done" => Outcomes = << "You lost" >>

\* C11 as amended: with the dealer dealt 21 and the player not, the dealer
\* never draws and the dealer's turn is never entered; the only cards drawn
\* after the deal are the player's Hits; and once the player stands the
\* outcome is "player loses".
C11_DealerDealt21 ==
    DealerDealt21 =>
        /\ Len(dealer.cards) = 2
        /\ pc # "dealers_turn"
        /\ Len(drawn) = 2 + Len(player.cards)
        /\ lost = "None" => pc = "done" /\ Outcomes = << "You lost" >>
        /\ (pc = "done" /\ lost # "None") => Len(player.cards) > 2

\* The player hit once, stood, and lost to the dealer's dealt 21.
C11_Witness ==
    /\ DealerDealt21
    /\ pc = "done"
    /\ lost = "None"
    /\ Len(player.cards) = 3
    /\ Outcomes = << "You lost" >>

\* C12: the dealer's turn is entered, and the dealer draws after the deal,
\* only after the player chose Stand with a score between 4 and 20 and with
\* the dealer's dealt score not 21; never after the player's turn ended with
\* a win or a loss.
C12_DealerTurnEntry ==
    /\ (pc = "dealers_turn" \/ Len(dealer.cards) > 2) =>
          /\ lost = "None"
          /\ cmd = "S"
          /\ player.score \in 4..20
          /\ ~IsRuleScore(SubSeq(dealer.cards, 1, 2), 21)
    /\ lost \in { "True", "False" } => pc = "done" /\ Len(dealer.cards) = 2

\* The dealer's turn entered after a Hit and a Stand on 20.
C12_Witness ==
    /\ pc = "dealers_turn"
    /\ Len(player.cards) = 3
    /\ player.score = 20

\* The dealer's turn entered on the lowest standing score.
C12_WitnessLow == pc = "dealers_turn" /\ player.score = 4

\* C13: ask_next_move returns only "H" or "S", for h/H and s/S typed in
\* either case; any other input is rejected and prompted for again with no
\* card drawn, no hand or score changed and no outcome reported.
C13_AskNextMove ==
    /\ [](cmd \in { "", "H", "S" })
    /\ [][ pc = "got_input" =>
              IF action \in { "H", "h" } THEN cmd' = "H" /\ pc' = "hit"
              ELSE IF action \in { "S", "s" } THEN cmd' = "S" /\ lost' = "None"
              ELSE /\ pc' = "ask_next_move"
                   /\ invalid' = invalid + 1
                   /\ UNCHANGED << player, dealer, drawn, reports, asked, lost, cmd, screen >> ]_vars

\* An invalid input was rejected and then a lower-case h was taken as a Hit.
C13_Witness ==
    /\ pc = "got_input"
    /\ invalid = 1
    /\ action = "h"

\* ------------------------------------------------------------------ claims C14..C17
\* C14: a failed draw aborts the game at once: the run is over with no
\* outcome reported, and nothing happens after it (no retry, no further draw,
\* no move requested, no report).
C14_DrawFailureAborts ==
    /\ [](error = "draw" => pc = "aborted" /\ reports = << >>)
    /\ [][ pc = "aborted" =>
              UNCHANGED << pc, drawn, player, dealer, asked, reports, screen, error >> ]_vars
    /\ [][ (error = "none" /\ error' = "draw") =>
              /\ UNCHANGED << drawn, player, dealer, asked, reports, screen >>
              /\ \/ pc \in { "draw_first_cards", "hit" }
                 \/ pc = "dealers_turn" /\ dealer.score <= player.score ]_vars

\* A draw failed during the dealer's turn, after the dealer had drawn once.
C14_Witness ==
    /\ pc = "aborted"
    /\ error = "draw"
    /\ lost = "None"
    /\ Len(dealer.cards) = 3

\* A draw failed during the deal.
C14_WitnessDeal == pc = "aborted" /\ error = "draw" /\ Len(drawn) = 2

\* A draw failed on a Hit.
C14_WitnessHit == pc = "aborted" /\ error = "draw" /\ cmd = "H" /\ lost = "unset" /\ Len(drawn) = 5

\* The dealer's hand with its last card replaced by a card of value v.
WithLastCard(h, v) ==
    LET cs == [ h.cards EXCEPT ![Len(h.cards)] = v ]
    IN  [ cards |-> cs, score |-> calculate_hand_score(cs) ]

\* C15: the display on the screen during the player's turn is the non-final
\* rendering of the current hands: it shows "??" for the dealer's score and
\* for the dealer's last card, and it is the same whatever the dealer's last
\* card is; the display that goes with an outcome shows the dealer's whole
\* hand and score.
C15_DealerLastCardHidden ==
    /\ pc \in { "ask_next_move", "got_input", "hit" } =>
          /\ screen = display_state([ dealer |-> dealer, player |-> player ], FALSE)
          /\ screen.dealer_score = "??"
          /\ screen.dealer_cards = << dealer.cards[1], "??" >>
    /\ pc = "ask_next_move" =>
          \A v \in AllRanks :
              display_state([ dealer |-> WithLastCard(dealer, v), player |-> player ], FALSE) = screen
    /\ reports # << >> =>
          /\ screen.dealer_score = ToString(dealer.score)
          /\ screen.dealer_cards = dealer.cards
          /\ screen.player_cards = player.cards
          /\ screen.player_score = ToString(player.score)

\* The player is being asked while the dealer holds a hidden Ace on a 10.
C15_Witness ==
    /\ pc = "ask_next_move"
    /\ dealer.cards = << "10", "ACE" >>
    /\ screen.dealer_cards = << "10", "??" >>
    /\ Len(player.cards) = 3

\* C16: no outcome is ever reported from the `score > 22` branch of
\* players_turn.
C16_Over22BranchDead == \A k \in DOMAIN reports : reports[k].site # "hit_over_22"

\* The player hit to a score above 22 and the `> 21` check reported the loss.
C16_Witness ==
    /\ pc = "done"
    /\ player.score > 22
    /\ Len(reports) = 1
    /\ reports[1].site = "hit_over_21"

\* The totals a hand can be given by valuing each Ace as 1 or as 11.
Totals(cards) ==
    { NonAceSum(cards) + AceCount(cards) + 10 * k : k \in 0..AceCount(cards) }

\* The highest total not above 21 (0 if there is none).
BestTotal(cards) ==
    LET ok == { t \in Totals(cards) : t <= 21 }
    IN  IF ok = {} THEN 0 ELSE CHOOSE t \in ok : \A u \in ok : u <= t

\* C17: the score is not the best blackjack total: a hand of two Aces and a
\* 10-valued card scores 22, though valuing both Aces as 1 gives 12, the
\* highest total not above 21.
C17_GreedyNotOptimal ==
    (Len(hand.cards) = 3 /\ AceCount(hand.cards) = 2 /\ NonAceSum(hand.cards) = 10) =>
        /\ hand.score = 22
        /\ BestTotal(hand.cards) = 12
        /\ hand.score # BestTotal(hand.cards)

\* The hand 10, ACE, ACE.
C17_Witness ==
    /\ hand.cards = << "10", "ACE", "ACE" >>
    /\ hand.score > 21
    /\ BestTotal(hand.cards) <= 21

\* ------------------------------------------------------------------ claims C18..C20
\* The total of a hand with every Ace valued 1.
LowTotal(cards) == NonAceSum(cards) + AceCount(cards)

\* C18: every game ends.  Each card drawn raises the Ace-as-1 total of the
\* hand it goes to, and a hand's score is never below that total; the player
\* can only be asked or hit with a score below 21, and the dealer only draws
\* with a score of at most the player's, below 21: so a hand that still draws
\* has an Ace-as-1 total of at most 20 and fewer than 21 cards.  A run that
\* has not ended can always take a step.
C18_Terminates ==
    /\ [][ /\ player' # player => LowTotal(player'.cards) > LowTotal(player.cards)
           /\ dealer' # dealer => LowTotal(dealer'.cards) > LowTotal(dealer.cards) ]_vars
    /\ [](\A h \in AllHands : Len(h.cards) <= LowTotal(h.cards) /\ LowTotal(h.cards) <= h.score)
    /\ [](pc \in { "players_turn", "ask_next_move", "got_input", "hit" } =>
              player.score < 21 /\ LowTotal(player.cards) <= 20)
    /\ [](pc = "dealers_turn" => player.score < 21)
    /\ []((pc = "dealers_turn" /\ dealer.score <= player.score) => LowTotal(dealer.cards) <= 20)
    /\ [](pc \in { "done", "aborted" } \/ ENABLED Next)

\* Under FairSpec every run reaches its end.
EventuallyEnds == <>(pc \in { "done", "aborted" })

\* A game that ended with an outcome after the player hit and the dealer drew.
C18_Witness ==
    /\ pc = "done"
    /\ Len(player.cards) = 3
    /\ Len(dealer.cards) = 3
    /\ Len(reports) = 1
    /\ LowTotal(player.cards) < player.score

\* C19: "player wins" is reported only with the player's score exactly 21 or
\* the dealer's above 22; "player loses" only with the player's score above
\* 21, or the dealer's exactly 21, or the dealer's above the player's and
\* below 21.  (The scores do not change after the report.)
C19_OutcomeMatchesScores ==
    /\ [][ reports' # reports =>
              LET o == reports'[Len(reports')].outcome
              IN  /\ Len(reports') = Len(reports) + 1
                  /\ o = "You won" => player'.score = 21 \/ dealer'.score > 22
                  /\ o = "You lost" =>
                        \/ player'.score > 21
                        \/ dealer'.score = 21
                        \/ dealer'.score > player'.score /\ dealer'.score < 21 ]_vars
    /\ [](\A k \in DOMAIN reports : reports[k].outcome \in { "You won", "You lost" })

\* The dealer went above 22 and "player wins" was reported.
C19_Witness ==
    /\ Outcomes = << "You won" >>
    /\ player.score < 21
    /\ dealer.score > 22
    /\ reports[1].site = "dealer_above"

\* C20: a hand changes only by one card appended to it; the dealer's only
\* during the deal or in the dealer's turn after the player stood, the
\* player's only during the deal or on a Hit before the player's turn has
\* ended; after an outcome was reported no card is drawn, no hand changes
\* and no other outcome is reported.
C20_HandsChangeInTurn ==
    [][ /\ dealer' # dealer =>
              /\ \E v \in AllRanks : dealer'.cards = Append(dealer.cards, v)
              /\ \/ pc = "draw_first_cards"
                 \/ pc = "dealers_turn" /\ lost = "None" /\ Len(dealer.cards) >= 2
        /\ player' # player =>
              /\ \E v \in AllRanks : player'.cards = Append(player.cards, v)
              /\ lost = "unset"
              /\ \/ pc = "draw_first_cards"
                 \/ pc = "hit" /\ Len(player.cards) >= 2
        /\ reports # << >> => UNCHANGED << drawn, player, dealer, reports >>
        /\ Len(reports') <= 1 ]_vars

\* Both hands grew in their own phases and one outcome was reported.
C20_Witness ==
    /\ pc = "done"
    /\ Len(player.cards) = 3
    /\ Len(dealer.cards) = 3
    /\ reports # << >>
    /\ lost = "None"

====
